---- MODULE Spec2Model ----
(***************************************************************************)
(* Model of package customerimporter (internal/customerimporter/           *)
(* interview.go): NewCustomerImporter, GetDomainCounts with its reader and *)
(* consumer goroutines, isValidEmail, extractEmailDomain,                  *)
(* sortEmailDomainsByCount and indexOf.                                    *)
(*                                                                         *)
(* Every string (a path, a field, an email address, a domain) is a         *)
(* sequence of one-character strings.                                      *)
(***************************************************************************)
EXTENDS Integers, Sequences, FiniteSets, TLC

VARIABLES
    csvFilePath,        \* importer.csvFilePath
    emailFieldName,     \* importer.emailFieldName
    disk,               \* the file system entry csvFilePath names
    importer,           \* "nil", "constructed" (NewCustomerImporter), "literal"
    newErr,             \* error returned by NewCustomerImporter
    pcMain,             \* position of the calling goroutine
    pcReader,           \* position of the goroutine of lines 82-112
    pcConsumer,         \* position of the goroutine of lines 115-130
    panicked,           \* the process died of a runtime panic
    readerPos,          \* csv.Reader: number of lines consumed
    fieldsPerRecord,    \* csv.Reader.FieldsPerRecord (0 until the first record)
    emailIndex,         \* index of the target field, 0-based, -1 when absent
    record,             \* reader goroutine: record
    email,              \* reader goroutine: email
    address,            \* consumer goroutine: address
    chanClosed,         \* emailAddresses has been closed
    wgCounter,          \* sync.WaitGroup: counter
    wgWaiters,          \* sync.WaitGroup: goroutines registered in Wait
    wgSema,             \* sync.WaitGroup: semaphore releases not yet taken
    emailDomainCounts,  \* the aggregate map
    result,             \* GetDomainCounts: returned slice
    err,                \* GetDomainCounts: returned error
    emailLine,          \* history: line number of the record email came from
    addressLine,        \* history: line number of the record address came from
    counted,            \* history: line numbers whose address was aggregated
    callArg,            \* direct call of a helper: its argument
    callRet             \* direct call of a helper: its result

vars == <<csvFilePath, emailFieldName, disk, importer, newErr, pcMain, pcReader,
          pcConsumer, panicked, readerPos, fieldsPerRecord, emailIndex, record,
          email, address, chanClosed, wgCounter, wgWaiters, wgSema,
          emailDomainCounts, result, err, emailLine, addressLine, counted,
          callArg, callRet>>

ioVars == <<csvFilePath, emailFieldName, disk>>
ctorVars == <<importer, newErr>>
csvVars == <<readerPos, fieldsPerRecord>>
wgVars == <<wgCounter, wgWaiters, wgSema>>
callVars == <<callArg, callRet>>

----------------------------------------------------------------------------
(* Bounds *)

MaxRows == 3
MaxEmailLen == 6
MaxDomains == 3
MaxCount == 3

----------------------------------------------------------------------------
(* Characters and the classes of the regular expression of isValidEmail *)

LowerLetters ==
    {"a","b","c","d","e","f","g","h","i","j","k","l","m",
     "n","o","p","q","r","s","t","u","v","w","x","y","z"}

UpperLetters ==
    {"A","B","C","D","E","F","G","H","I","J","K","L","M",
     "N","O","P","Q","R","S","T","U","V","W","X","Y","Z"}

Letters == LowerLetters \cup UpperLetters

Digits == {"0","1","2","3","4","5","6","7","8","9"}

\* [a-zA-Z0-9._%+-]
LocalChars == Letters \cup Digits \cup {".", "_", "%", "+", "-"}

\* [a-zA-Z0-9.-]
DomainChars == Letters \cup Digits \cup {".", "-"}

\* [a-zA-Z]
TldChars == Letters

----------------------------------------------------------------------------
(* Pure helpers *)

\* strings.HasSuffix(s, suffix)
HasSuffix(s, suffix) ==
    /\ Len(s) >= Len(suffix)
    /\ SubSeq(s, Len(s) - Len(suffix) + 1, Len(s)) = suffix

CsvSuffix == <<".", "c", "s", "v">>

\* One step of the automaton of
\*   ^[a-zA-Z0-9._%+-]+@[a-zA-Z0-9.-]+\.[a-zA-Z]{2,}$
\* State 0: start; 1: inside the local part; 2: after '@'; 3: inside the
\* domain class; 4: after the literal '.'; 5: one letter read; 6: two or more
\* letters read (accepting).  '.' is in the domain class too, so state 3 has
\* two successors on '.'.
RegexStepLoose(q, c) ==
    CASE q = 0 -> IF c \in LocalChars THEN {1} ELSE {}
      [] q = 1 -> (IF c \in LocalChars THEN {1} ELSE {})
                  \cup (IF c = "@" THEN {2} ELSE {})
      [] q = 2 -> IF c \in DomainChars THEN {3} ELSE {}
      [] q = 3 -> (IF c \in DomainChars THEN {3} ELSE {})
                  \cup (IF c = "." THEN {4} ELSE {})
      [] q = 4 -> IF c \in TldChars THEN {6} ELSE {}
      [] q = 5 -> IF c \in TldChars THEN {6} ELSE {}
      [] q = 6 -> IF c \in TldChars THEN {6} ELSE {}
      [] OTHER -> {}

RegexStepAtInDomain(q, c) ==
    CASE q = 0 -> IF c \in LocalChars THEN {1} ELSE {}
      [] q = 1 -> (IF c \in LocalChars THEN {1} ELSE {})
                  \cup (IF c = "@" THEN {2} ELSE {})
      [] q = 2 -> IF c \in DomainChars \cup {"@"} THEN {3} ELSE {}
      [] q = 3 -> (IF c \in DomainChars \cup {"@"} THEN {3} ELSE {})
                  \cup (IF c = "." THEN {4} ELSE {})
      [] q = 4 -> IF c \in TldChars THEN {5} ELSE {}
      [] q = 5 -> IF c \in TldChars THEN {6} ELSE {}
      [] q = 6 -> IF c \in TldChars THEN {6} ELSE {}
      [] OTHER -> {}

RegexStep(q, c) ==
    CASE q = 0 -> IF c \in LocalChars THEN {1} ELSE {}
      [] q = 1 -> (IF c \in LocalChars THEN {1} ELSE {})
                  \cup (IF c = "@" THEN {2} ELSE {})
      [] q = 2 -> IF c \in DomainChars THEN {3} ELSE {}
      [] q = 3 -> (IF c \in DomainChars THEN {3} ELSE {})
                  \cup (IF c = "." THEN {4} ELSE {})
      [] q = 4 -> IF c \in TldChars THEN {5} ELSE {}
      [] q = 5 -> IF c \in TldChars THEN {6} ELSE {}
      [] q = 6 -> IF c \in TldChars THEN {6} ELSE {}
      [] OTHER -> {}

RECURSIVE RegexRun(_, _, _)
RegexRun(states, s, i) ==
    IF i > Len(s) THEN states
    ELSE RegexRun(UNION {RegexStep(q, s[i]) : q \in states}, s, i + 1)

\* re.MatchString(email): the expression is anchored at both ends
isValidEmail(e) == 6 \in RegexRun({0}, e, 1)

\* strings.Index(s, "@"), 1-based, 0 when absent
IndexAt(s) ==
    IF \E i \in 1..Len(s) : s[i] = "@"
    THEN CHOOSE i \in 1..Len(s) : s[i] = "@" /\ \A k \in 1..(i - 1) : s[k] # "@"
    ELSE 0

\* strings.Split(s, "@")
RECURSIVE Split(_)
Split(s) ==
    IF IndexAt(s) = 0 THEN <<s>>
    ELSE <<SubSeq(s, 1, IndexAt(s) - 1)>> \o Split(SubSeq(s, IndexAt(s) + 1, Len(s)))

extractLocalPart(e) ==
    LET parts == Split(e)
    IN IF Len(parts) = 2
       THEN [domain |-> parts[1], err |-> FALSE]
       ELSE [domain |-> <<>>, err |-> TRUE]

extractLenient(e) ==
    LET parts == Split(e)
    IN IF Len(parts) >= 2
       THEN [domain |-> parts[2], err |-> FALSE]
       ELSE [domain |-> <<>>, err |-> TRUE]

\* extractEmailDomain: (domain, error)
extractEmailDomain(e) ==
    LET parts == Split(e)
    IN IF Len(parts) = 2
       THEN [domain |-> parts[2], err |-> FALSE]
       ELSE [domain |-> <<>>, err |-> TRUE]

\* indexOf: 0-based index of the first occurrence, -1 when absent
RECURSIVE indexOfFrom(_, _, _)
indexOfFrom(slice, value, i) ==
    IF i > Len(slice) THEN -1
    ELSE IF slice[i] = value THEN i - 1
    ELSE indexOfFrom(slice, value, i + 1)

indexOfMissingAsZero(slice, value) ==
    IF indexOfFrom(slice, value, 1) = -1 THEN 0 ELSE indexOfFrom(slice, value, 1)

indexOf(slice, value) == indexOfFrom(slice, value, 1)

\* The comparison handed to sort.Slice
lessAscending(a, b) == a.CustomerCount < b.CustomerCount

less(a, b) == a.CustomerCount > b.CustomerCount

swapCopy(data, i, j) == [data EXCEPT ![i] = data[j]]

\* reflect.Swapper as used by sort.Slice
swap(data, i, j) == [data EXCEPT ![i] = data[j], ![j] = data[i]]

\* sort.Slice on fewer than 12 elements is an insertion sort:
\*   for i := a + 1; i < b; i++ {
\*       for j := i; j > a && less(j, j-1); j-- { swap(j, j-1) } }
RECURSIVE insertionInner(_, _)
insertionInner(data, j) ==
    IF j > 1 /\ less(data[j], data[j - 1])
    THEN insertionInner(swap(data, j, j - 1), j - 1)
    ELSE data

RECURSIVE insertionOuter(_, _)
insertionOuter(data, i) ==
    IF i > Len(data) THEN data
    ELSE insertionOuter(insertionInner(data, i), i + 1)

sortSlice(data) == insertionOuter(data, 2)

\* The orders in which "for k, v := range m" may visit the keys
RangeOrders(m) ==
    LET n == Cardinality(DOMAIN m)
    IN {o \in [1..n -> DOMAIN m] : \A i, j \in 1..n : o[i] = o[j] => i = j}

\* The slice built by the range loop of sortEmailDomainsByCount
rangeAppend(m, order) ==
    [i \in 1..Len(order) |-> [Domain |-> order[i], CustomerCount |-> m[order[i]]]]

\* sortEmailDomainsByCount: every slice it may return (one per iteration order)
sortEmailDomainsByCount(m) ==
    {sortSlice(rangeAppend(m, o)) : o \in RangeOrders(m)}

AlphabetLower ==
    <<"a","b","c","d","e","f","g","h","i","j","k","l","m",
      "n","o","p","q","r","s","t","u","v","w","x","y","z">>

AlphabetUpper ==
    <<"A","B","C","D","E","F","G","H","I","J","K","L","M",
      "N","O","P","Q","R","S","T","U","V","W","X","Y","Z">>

\* The string with every upper-case letter replaced by its lower-case one
ToLower(s) ==
    [k \in 1..Len(s) |->
        IF \E n \in 1..26 : AlphabetUpper[n] = s[k]
        THEN AlphabetLower[CHOOSE n \in 1..26 : AlphabetUpper[n] = s[k]]
        ELSE s[k]]

incrementFolded(m, domain) ==
    [d \in (DOMAIN m) \cup {ToLower(domain)} |->
        IF d = ToLower(domain)
        THEN (IF d \in DOMAIN m THEN m[d] ELSE 0) + 1
        ELSE m[d]]

incrementOverwrite(m, domain) ==
    [d \in (DOMAIN m) \cup {domain} |-> IF d = domain THEN 1 ELSE m[d]]

\* emailDomainCounts[domain]++
increment(m, domain) ==
    [d \in (DOMAIN m) \cup {domain} |->
        IF d = domain
        THEN (IF d \in DOMAIN m THEN m[d] ELSE 0) + 1
        ELSE m[d]]

EmptyMap == [d \in {} |-> 0]

----------------------------------------------------------------------------
(* Inputs *)

FieldEmail == <<"e", "m", "a", "i", "l">>
FieldName == <<"n", "a", "m", "e">>
FieldMail == <<"m", "a", "i", "l">>

PathCsv == <<"c", ".", "c", "s", "v">>
PathTxt == <<"c", ".", "t", "x", "t">>
PathBare == <<"s", "v">>

EmailA == <<"a", "@", "b", ".", "c", "c">>
EmailUpper == <<"d", "-", "1", "@", "B", ".", "c", "c">>
EmailNoAt == <<"a", "-", "b">>
EmailNoTld == <<"d", "@", "b">>
EmailTwoAt == <<"a", "@", "b", "@", "c", ".", "d", "d">>

Emails == {EmailA, EmailUpper, EmailNoAt, EmailNoTld, EmailTwoAt}

\* A line of the file as encoding/csv sees it: malformed (a parse error, such
\* as a bare quote) or a list of fields.
Line(fs) == [malformed |-> FALSE, fields |-> fs]
MalformedLine == [malformed |-> TRUE, fields |-> <<>>]

DataLines ==
    {Line(<<FieldName, e>>) : e \in Emails}
        \cup {Line(<<FieldName>>), Line(<<FieldName, EmailA, FieldName>>),
              MalformedLine}

HeaderGood == Line(<<FieldName, FieldEmail>>)
HeaderNoField == Line(<<FieldName, FieldMail>>)

SeqsUpTo(S, n) == UNION {[1..k -> S] : k \in 0..n}

\* Files whose header names the target field, with up to MaxRows data lines
GoodFiles ==
    {[stat |-> "ok", readable |-> TRUE, lines |-> <<HeaderGood>> \o rows] :
        rows \in SeqsUpTo(DataLines, MaxRows)}

\* The other file system entries.  stat is what os.Stat reports for the path:
\* "ok", "notexist" (ENOENT, the one error os.IsNotExist recognises) or
\* "notdir" (ENOTDIR: a component of the path is a regular file, so the path
\* names nothing either).  The entries: no file (twice), a file that cannot be
\* opened, an empty file, a file whose header cannot be parsed or lacks the
\* field, a file of a header alone.
OtherEntries ==
    {[stat |-> "notexist", readable |-> FALSE, lines |-> <<>>],
     [stat |-> "notdir", readable |-> FALSE, lines |-> <<>>],
     [stat |-> "ok", readable |-> FALSE, lines |-> <<HeaderGood>>],
     [stat |-> "ok", readable |-> TRUE, lines |-> <<>>],
     [stat |-> "ok", readable |-> TRUE, lines |-> <<MalformedLine>>],
     [stat |-> "ok", readable |-> TRUE, lines |-> <<HeaderNoField>>],
     [stat |-> "ok", readable |-> TRUE,
      lines |-> <<HeaderNoField, Line(<<FieldName, EmailA>>)>>],
     [stat |-> "ok", readable |-> TRUE, lines |-> <<HeaderGood>>]}

Paths == {PathCsv, PathTxt, PathBare}
FieldNames == {FieldEmail, <<>>}

----------------------------------------------------------------------------
(* Initial state: a path, a field name and a file system entry; nothing has
   been constructed or called. *)

Idle ==
    /\ importer = "nil"
    /\ newErr = "nil"
    /\ pcReader = "idle"
    /\ pcConsumer = "idle"
    /\ panicked = FALSE
    /\ readerPos = 0
    /\ fieldsPerRecord = 0
    /\ emailIndex = -1
    /\ record = <<>>
    /\ email = <<>>
    /\ address = <<>>
    /\ chanClosed = FALSE
    /\ wgCounter = 0
    /\ wgWaiters = 0
    /\ wgSema = 0
    /\ emailDomainCounts = EmptyMap
    /\ result = <<>>
    /\ err = "nil"
    /\ emailLine = 0
    /\ addressLine = 0
    /\ counted = {}

InitImporter ==
    /\ Idle
    /\ pcMain = "start"
    /\ callArg = <<>>
    /\ callRet = <<>>
    /\ \/ /\ csvFilePath = PathCsv
          /\ emailFieldName = FieldEmail
          /\ disk \in GoodFiles
       \/ /\ csvFilePath \in Paths
          /\ emailFieldName \in FieldNames
          /\ disk \in OtherEntries

NoImporter ==
    /\ Idle
    /\ csvFilePath = <<>>
    /\ emailFieldName = <<>>
    /\ disk = [stat |-> "notexist", readable |-> FALSE, lines |-> <<>>]

DigitSeq == <<"0", "1", "2", "3", "4", "5", "6", "7", "8", "9">>

\* The maps handed to sortEmailDomainsByCount directly: up to MaxDomains
\* domains "d0", "d1", ... with counts 1..MaxCount
SortDomains == {<<"d", DigitSeq[k]>> : k \in 1..MaxDomains}
SortMaps == UNION {[D -> 1..MaxCount] : D \in SUBSET SortDomains}

\* A direct call sortEmailDomainsByCount(m), as in TestSortEmailDomainsByCount
InitSortCall ==
    /\ NoImporter
    /\ pcMain = "callSort"
    /\ callArg \in SortMaps
    /\ callRet = <<>>

Init == InitImporter \/ InitSortCall

----------------------------------------------------------------------------
(* Library behaviour the code relies on *)

\* csv.Reader.Read on the line after pos.  FieldsPerRecord is 0 in a new
\* reader: the first record sets it, and a later record with another number
\* of fields is returned together with ErrFieldCount.
csvRead(lines, pos, fpr) ==
    IF pos >= Len(lines)
    THEN [kind |-> "eof", record |-> <<>>, fpr |-> fpr]
    ELSE IF lines[pos + 1].malformed
    THEN [kind |-> "err", record |-> <<>>, fpr |-> fpr]
    ELSE IF fpr = 0
    THEN [kind |-> "ok", record |-> lines[pos + 1].fields,
          fpr |-> Len(lines[pos + 1].fields)]
    ELSE IF Len(lines[pos + 1].fields) # fpr
    THEN [kind |-> "err", record |-> lines[pos + 1].fields, fpr |-> fpr]
    ELSE [kind |-> "ok", record |-> lines[pos + 1].fields, fpr |-> fpr]

\* sync.WaitGroup.Add(delta) on state (counter, waiters): the counter after
\* the atomic add and what Add does next.  It panics on a negative counter and
\* on a positive delta that lifts the counter from zero while a goroutine is
\* registered in Wait; it returns while the counter is positive or nobody
\* waits; otherwise it goes on to release the waiters.
wgAdd(counter, waiters, delta) ==
    LET v == counter + delta
    IN [counter |-> v,
        outcome |-> IF v < 0 THEN "panic"
                    ELSE IF waiters # 0 /\ delta > 0 /\ v = delta THEN "panic"
                    ELSE IF v > 0 \/ waiters = 0 THEN "return"
                    ELSE "release"]

Running == ~panicked

----------------------------------------------------------------------------
(* NewCustomerImporter and the struct literal the tests use *)

\* The error NewCustomerImporter returns ("nil": none).  The existence check
\* is os.IsNotExist(err) on the error of os.Stat.
newCustomerImporter(path, field, entry) ==
    IF ~HasSuffix(path, CsvSuffix) THEN "ext"
    ELSE IF entry.stat = "notexist" THEN "notexist"
    ELSE IF field = <<>> THEN "emptyfield"
    ELSE "nil"

NewCustomerImporter ==
    /\ Running
    /\ pcMain = "start"
    /\ newErr' = newCustomerImporter(csvFilePath, emailFieldName, disk)
    /\ importer' = IF newErr' = "nil" THEN "constructed" ELSE "nil"
    /\ pcMain' = IF newErr' = "nil" THEN "open" ELSE "ctorfailed"
    /\ UNCHANGED <<ioVars, pcReader, pcConsumer, panicked, csvVars, emailIndex,
                   record, email, address, chanClosed, wgVars,
                   emailDomainCounts, result, err, emailLine, addressLine,
                   counted, callVars>>

\* &customerImporter{csvFilePath: ..., emailFieldName: ...}
StructLiteral ==
    /\ Running
    /\ pcMain = "start"
    /\ importer' = "literal"
    /\ pcMain' = "open"
    /\ UNCHANGED <<ioVars, newErr, pcReader, pcConsumer, panicked, csvVars,
                   emailIndex, record, email, address, chanClosed, wgVars,
                   emailDomainCounts, result, err, emailLine, addressLine,
                   counted, callVars>>

----------------------------------------------------------------------------
(* GetDomainCounts: the calling goroutine *)

mainFrame == <<ioVars, ctorVars, pcReader, pcConsumer, panicked, record, email,
               address, chanClosed, emailDomainCounts, emailLine, addressLine,
               counted, callVars>>

\* os.Open
Open ==
    /\ Running
    /\ pcMain = "open"
    /\ IF disk.stat = "ok" /\ disk.readable
       THEN /\ pcMain' = "header"
            /\ UNCHANGED <<result, err>>
       ELSE /\ pcMain' = "returned"
            /\ result' = <<>>
            /\ err' = "open"
    /\ UNCHANGED <<mainFrame, csvVars, emailIndex, wgVars>>

\* fileHeaders, err := reader.Read()
ReadHeader ==
    /\ Running
    /\ pcMain = "header"
    /\ LET r == csvRead(disk.lines, readerPos, fieldsPerRecord)
       IN IF r.kind = "ok"
          THEN /\ pcMain' = "index"
               /\ readerPos' = readerPos + 1
               /\ fieldsPerRecord' = r.fpr
               /\ UNCHANGED <<result, err>>
          ELSE /\ pcMain' = "returned"
               /\ result' = <<>>
               /\ err' = "header"
               /\ readerPos' = IF r.kind = "err" THEN readerPos + 1 ELSE readerPos
               /\ UNCHANGED fieldsPerRecord
    /\ UNCHANGED <<mainFrame, emailIndex, wgVars>>

\* emailIndex := indexOf(fileHeaders, importer.emailFieldName)
LocateField ==
    /\ Running
    /\ pcMain = "index"
    /\ emailIndex' = indexOf(disk.lines[1].fields, emailFieldName)
    /\ IF emailIndex' = -1
       THEN /\ pcMain' = "returned"
            /\ result' = <<>>
            /\ err' = "field"
       ELSE /\ pcMain' = "setup"
            /\ UNCHANGED <<result, err>>
    /\ UNCHANGED <<mainFrame, csvVars, wgVars>>

SetupWithoutAdd ==
    /\ Running
    /\ pcMain = "setup"
    /\ pcMain' = "goreader"
    /\ UNCHANGED <<mainFrame, csvVars, emailIndex, wgVars, result, err>>

\* wg.Add(1); emailAddresses := make(chan string)
Setup ==
    /\ Running
    /\ pcMain = "setup"
    /\ wgCounter' = wgAdd(wgCounter, wgWaiters, 1).counter
    /\ pcMain' = "goreader"
    /\ UNCHANGED <<mainFrame, csvVars, emailIndex, wgWaiters, wgSema, result, err>>

\* go func() { ... }() of lines 82-112
SpawnReader ==
    /\ Running
    /\ pcMain = "goreader"
    /\ pcMain' = "goconsumer"
    /\ pcReader' = "add"
    /\ UNCHANGED <<ioVars, ctorVars, pcConsumer, panicked, csvVars, emailIndex,
                   record, email, address, chanClosed, wgVars,
                   emailDomainCounts, result, err, emailLine, addressLine,
                   counted, callVars>>

\* go func() { ... }() of lines 115-130
SpawnConsumer ==
    /\ Running
    /\ pcMain = "goconsumer"
    /\ pcMain' = "wait"
    /\ pcConsumer' = "add"
    /\ UNCHANGED <<ioVars, ctorVars, pcReader, panicked, csvVars, emailIndex,
                   record, email, address, chanClosed, wgVars,
                   emailDomainCounts, result, err, emailLine, addressLine,
                   counted, callVars>>

WaitUnblocking ==
    /\ Running
    /\ pcMain = "wait"
    /\ pcMain' = "sort"
    /\ UNCHANGED <<mainFrame, csvVars, emailIndex, wgVars, result, err>>

\* wg.Wait(): returns at once on a zero counter, else registers as a waiter
Wait ==
    /\ Running
    /\ pcMain = "wait"
    /\ IF wgCounter = 0
       THEN /\ pcMain' = "sort"
            /\ UNCHANGED wgWaiters
       ELSE /\ pcMain' = "blocked"
            /\ wgWaiters' = wgWaiters + 1
    /\ UNCHANGED <<mainFrame, csvVars, emailIndex, wgCounter, wgSema, result, err>>

\* wg.Wait(): the semaphore is acquired
WaitWake ==
    /\ Running
    /\ pcMain = "blocked"
    /\ wgSema > 0
    /\ wgSema' = wgSema - 1
    /\ pcMain' = "woken"
    /\ UNCHANGED <<mainFrame, csvVars, emailIndex, wgCounter, wgWaiters, result, err>>

\* wg.Wait() after the wake-up: "WaitGroup is reused before previous Wait has
\* returned" unless the state is still zero
WaitReturn ==
    /\ Running
    /\ pcMain = "woken"
    /\ IF wgCounter # 0 \/ wgWaiters # 0
       THEN /\ panicked' = TRUE
            /\ UNCHANGED pcMain
       ELSE /\ pcMain' = "sort"
            /\ UNCHANGED panicked
    /\ UNCHANGED <<ioVars, ctorVars, pcReader, pcConsumer, csvVars, emailIndex,
                   record, email, address, chanClosed, wgVars,
                   emailDomainCounts, result, err, emailLine, addressLine,
                   counted, callVars>>

\* sortedDomains := sortEmailDomainsByCount(emailDomainCounts); return
SortAndReturn ==
    /\ Running
    /\ pcMain = "sort"
    /\ result' \in sortEmailDomainsByCount(emailDomainCounts)
    /\ err' = "nil"
    /\ pcMain' = "returned"
    /\ UNCHANGED <<mainFrame, csvVars, emailIndex, wgVars>>

----------------------------------------------------------------------------
(* GetDomainCounts: the reader goroutine (lines 82-112) *)

readerFrame == <<ioVars, ctorVars, pcMain, pcConsumer, emailIndex, address,
                 emailDomainCounts, result, err, addressLine, counted, callVars>>

\* wg.Add(1) / wg.Done() by a goroutine at position pc: the new counter, and
\* the goroutine's next position (next, or release to wake the waiters)
wgStep(delta, next, release) ==
    LET a == wgAdd(wgCounter, wgWaiters, delta)
    IN [counter |-> a.counter,
        panic |-> a.outcome = "panic",
        pc |-> IF a.outcome = "release" THEN release ELSE next]

\* The waiters are released: the state is reset and the semaphore posted once
\* per waiter ("Add called concurrently with Wait" if the state has changed)
wgRelease ==
    IF wgCounter # 0
    THEN /\ panicked' = TRUE
         /\ UNCHANGED wgVars
    ELSE /\ wgCounter' = 0
         /\ wgWaiters' = 0
         /\ wgSema' = wgSema + wgWaiters
         /\ UNCHANGED panicked

ReaderAdd ==
    /\ Running
    /\ pcReader = "add"
    /\ LET a == wgStep(1, "read", "read")
       IN /\ wgCounter' = a.counter
          /\ panicked' = a.panic
          /\ pcReader' = a.pc
    /\ UNCHANGED <<readerFrame, csvVars, record, email, chanClosed, wgWaiters,
                   wgSema, emailLine>>

readerAfterReadNoContinue(kind) ==
    IF kind = "eof" THEN "done1" ELSE "index"

\* Where the loop goes after isValidEmail: an invalid address is logged and
\* the loop continues, a valid one is sent
readerAfterValidate(valid) == IF valid THEN "send" ELSE "read"

\* Where the loop goes after reader.Read(): io.EOF leaves it, any other error
\* is logged and the loop continues, a record goes on to the field
readerAfterRead(kind) ==
    IF kind = "eof" THEN "done1"
    ELSE IF kind = "err" THEN "read"
    ELSE "index"

\* record, err := reader.Read()
ReaderRead ==
    /\ Running
    /\ pcReader = "read"
    /\ LET r == csvRead(disk.lines, readerPos, fieldsPerRecord)
       IN /\ record' = r.record
          /\ fieldsPerRecord' = r.fpr
          /\ readerPos' = IF r.kind = "eof" THEN readerPos ELSE readerPos + 1
          /\ emailLine' = IF r.kind = "eof" THEN emailLine ELSE readerPos + 1
          /\ pcReader' = readerAfterRead(r.kind)
    /\ UNCHANGED <<readerFrame, panicked, email, chanClosed, wgVars>>

\* email := record[emailIndex]; if !isValidEmail(email) { log; continue }
ReaderValidate ==
    /\ Running
    /\ pcReader = "index"
    /\ IF emailIndex >= Len(record)
       THEN /\ panicked' = TRUE
            /\ UNCHANGED <<email, pcReader>>
       ELSE /\ email' = record[emailIndex + 1]
            /\ pcReader' = readerAfterValidate(isValidEmail(email'))
            /\ UNCHANGED panicked
    /\ UNCHANGED <<readerFrame, csvVars, record, chanClosed, wgVars, emailLine>>

HandoffUnawaited ==
    /\ Running
    /\ pcReader = "send"
    /\ pcConsumer \in {"recv", "extract"}
    /\ ~chanClosed
    /\ address' = email
    /\ addressLine' = emailLine
    /\ pcReader' = "read"
    /\ pcConsumer' = "extract"
    /\ UNCHANGED <<ioVars, ctorVars, pcMain, panicked, csvVars, emailIndex,
                   record, email, chanClosed, wgVars, emailDomainCounts,
                   result, err, emailLine, counted, callVars>>

\* emailAddresses <- email meets "address := range emailAddresses": the
\* channel is unbuffered, so the send and the receive happen together.
\* A send on a closed channel panics.
Handoff ==
    /\ Running
    /\ pcReader = "send"
    /\ IF chanClosed
       THEN /\ panicked' = TRUE
            /\ UNCHANGED <<address, addressLine, pcReader, pcConsumer>>
       ELSE /\ pcConsumer = "recv"
            /\ address' = email
            /\ addressLine' = emailLine
            /\ pcReader' = "read"
            /\ pcConsumer' = "extract"
            /\ UNCHANGED panicked
    /\ UNCHANGED <<ioVars, ctorVars, pcMain, csvVars, emailIndex,
                   record, email, chanClosed, wgVars, emailDomainCounts,
                   result, err, emailLine, counted, callVars>>

\* wg.Done() of line 90
ReaderDone1 ==
    /\ Running
    /\ pcReader = "done1"
    /\ LET a == wgStep(-1, "close", "release1")
       IN /\ wgCounter' = a.counter
          /\ panicked' = a.panic
          /\ pcReader' = a.pc
    /\ UNCHANGED <<readerFrame, csvVars, record, email, chanClosed, wgWaiters,
                   wgSema, emailLine>>

readerAfterCloseLoops == "read"

\* Where the reader goes after close(emailAddresses): the break of line 92
\* leaves the loop for wg.Done() of line 111
readerAfterClose == "done2"

\* close(emailAddresses); closing a closed channel panics
ReaderClose ==
    /\ Running
    /\ pcReader = "close"
    /\ IF chanClosed
       THEN /\ panicked' = TRUE
            /\ UNCHANGED <<chanClosed, pcReader>>
       ELSE /\ chanClosed' = TRUE
            /\ pcReader' = readerAfterClose
            /\ UNCHANGED panicked
    /\ UNCHANGED <<readerFrame, csvVars, record, email, wgVars, emailLine>>

\* wg.Done() of line 111
ReaderDone2 ==
    /\ Running
    /\ pcReader = "done2"
    /\ LET a == wgStep(-1, "exit", "release2")
       IN /\ wgCounter' = a.counter
          /\ panicked' = a.panic
          /\ pcReader' = a.pc
    /\ UNCHANGED <<readerFrame, csvVars, record, email, chanClosed, wgWaiters,
                   wgSema, emailLine>>

\* the second half of a wg.Done() that brought the counter to zero
ReaderRelease ==
    /\ Running
    /\ pcReader \in {"release1", "release2"}
    /\ wgRelease
    /\ pcReader' = IF panicked' THEN pcReader
                   ELSE IF pcReader = "release1" THEN "close" ELSE "exit"
    /\ UNCHANGED <<readerFrame, csvVars, record, email, chanClosed, emailLine>>

----------------------------------------------------------------------------
(* GetDomainCounts: the consumer goroutine (lines 115-130) *)

consumerFrame == <<ioVars, ctorVars, pcMain, pcReader, csvVars, emailIndex,
                   record, email, chanClosed, result, err, emailLine, callVars>>

ConsumerAdd ==
    /\ Running
    /\ pcConsumer = "add"
    /\ LET a == wgStep(1, "recv", "recv")
       IN /\ wgCounter' = a.counter
          /\ panicked' = a.panic
          /\ pcConsumer' = a.pc
    /\ UNCHANGED <<consumerFrame, address, wgWaiters, wgSema,
                   emailDomainCounts, addressLine, counted>>

\* the range loop ends once the channel is closed (and, unbuffered, empty)
ConsumerRangeEnd ==
    /\ Running
    /\ pcConsumer = "recv"
    /\ chanClosed
    /\ pcConsumer' = "done"
    /\ UNCHANGED <<consumerFrame, panicked, address, wgVars, emailDomainCounts,
                   addressLine, counted>>

\* domain, err := extractEmailDomain(address); on an error log and continue,
\* else emailDomainCounts[domain]++
ConsumerAggregate ==
    /\ Running
    /\ pcConsumer = "extract"
    /\ LET x == extractEmailDomain(address)
       IN IF x.err
          THEN UNCHANGED <<emailDomainCounts, counted>>
          ELSE /\ emailDomainCounts' = increment(emailDomainCounts, x.domain)
               /\ counted' = counted \cup {addressLine}
    /\ pcConsumer' = "recv"
    /\ UNCHANGED <<consumerFrame, panicked, address, wgVars, addressLine>>

\* wg.Done() of line 129
ConsumerDone ==
    /\ Running
    /\ pcConsumer = "done"
    /\ LET a == wgStep(-1, "exit", "release")
       IN /\ wgCounter' = a.counter
          /\ panicked' = a.panic
          /\ pcConsumer' = a.pc
    /\ UNCHANGED <<consumerFrame, address, wgWaiters, wgSema,
                   emailDomainCounts, addressLine, counted>>

ConsumerRelease ==
    /\ Running
    /\ pcConsumer = "release"
    /\ wgRelease
    /\ pcConsumer' = IF panicked' THEN pcConsumer ELSE "exit"
    /\ UNCHANGED <<consumerFrame, address, emailDomainCounts, addressLine, counted>>

----------------------------------------------------------------------------
(* Direct calls of the helpers *)

callFrame == <<ioVars, ctorVars, pcReader, pcConsumer, panicked, csvVars,
               emailIndex, record, email, address, chanClosed, wgVars,
               emailDomainCounts, result, err, emailLine, addressLine, counted>>

CallSort ==
    /\ pcMain = "callSort"
    /\ callRet' \in sortEmailDomainsByCount(callArg)
    /\ pcMain' = "calledSort"
    /\ UNCHANGED <<callFrame, callArg>>

\* Characters of each class of the expression: a lower-case and an upper-case
\* letter, a digit, the dot, a character of the local part only, the '@', and
\* a character no class holds
EmailAlphabet == {"a", "Z", "7", ".", "_", "@", " "}

InitEmailCall ==
    /\ NoImporter
    /\ pcMain = "callValid"
    /\ callArg = <<>>
    /\ callRet = FALSE

InitExtractCall ==
    /\ NoImporter
    /\ pcMain = "callExtract"
    /\ callArg = <<>>
    /\ callRet = [domain |-> <<>>, err |-> FALSE]

\* The caller extends the string it is about to pass
TypeChar ==
    /\ pcMain \in {"callValid", "callExtract"}
    /\ Len(callArg) < MaxEmailLen
    /\ \E c \in EmailAlphabet : callArg' = Append(callArg, c)
    /\ UNCHANGED <<callFrame, pcMain, callRet>>

\* isValidEmail(callArg)
CallValid ==
    /\ pcMain = "callValid"
    /\ callRet' = isValidEmail(callArg)
    /\ pcMain' = "calledValid"
    /\ UNCHANGED <<callFrame, callArg>>

\* extractEmailDomain(callArg)
CallExtract ==
    /\ pcMain = "callExtract"
    /\ callRet' = extractEmailDomain(callArg)
    /\ pcMain' = "calledExtract"
    /\ UNCHANGED <<callFrame, callArg>>

----------------------------------------------------------------------------

Next ==
    \/ NewCustomerImporter
    \/ StructLiteral
    \/ Open
    \/ ReadHeader
    \/ LocateField
    \/ Setup
    \/ SpawnReader
    \/ SpawnConsumer
    \/ Wait
    \/ WaitWake
    \/ WaitReturn
    \/ SortAndReturn
    \/ ReaderAdd
    \/ ReaderRead
    \/ ReaderValidate
    \/ Handoff
    \/ ReaderDone1
    \/ ReaderClose
    \/ ReaderDone2
    \/ ReaderRelease
    \/ ConsumerAdd
    \/ ConsumerRangeEnd
    \/ ConsumerAggregate
    \/ ConsumerDone
    \/ ConsumerRelease
    \/ CallSort

\* Direct calls of isValidEmail on every string over EmailAlphabet of up to
\* MaxEmailLen characters
NextEmail ==
    \/ TypeChar
    \/ CallValid

SpecEmail == InitEmailCall /\ [][NextEmail]_vars

\* Direct calls of extractEmailDomain on the same strings
NextExtract ==
    \/ TypeChar
    \/ CallExtract

SpecExtract == InitExtractCall /\ [][NextExtract]_vars

Spec == Init /\ [][Next]_vars

\* The calls of GetDomainCounts together with the direct calls of
\* extractEmailDomain
InitValidated == Init \/ InitExtractCall

NextValidated ==
    \/ Next
    \/ NextExtract

SpecValidated == InitValidated /\ [][NextValidated]_vars

----------------------------------------------------------------------------
(* What the properties speak about *)

\* GetDomainCounts has returned a slice and a nil error
Completed == pcMain = "returned" /\ err = "nil"

HeaderFields == disk.lines[1].fields

\* The column of the target field: the first header field equal to the name
TargetColumn ==
    CHOOSE k \in 1..Len(HeaderFields) :
        /\ HeaderFields[k] = emailFieldName
        /\ \A j \in 1..(k - 1) : HeaderFields[j] # emailFieldName

DataLineNos == 2..Len(disk.lines)

Fields(i) == disk.lines[i].fields

\* Data rows that have a value in the target column, and isValidEmail
\* accepts it
RowsWithValidTarget ==
    {i \in DataLineNos :
        /\ ~disk.lines[i].malformed
        /\ Len(Fields(i)) >= TargetColumn
        /\ isValidEmail(Fields(i)[TargetColumn])}

\* ... and that have as many fields as the header
ValidRecords ==
    {i \in RowsWithValidTarget : Len(Fields(i)) = Len(HeaderFields)}

\* The substring after the '@' of an address that holds exactly one
AfterAt(e) ==
    LET p == CHOOSE i \in 1..Len(e) : e[i] = "@"
    IN SubSeq(e, p + 1, Len(e))

DomainOfRow(i) == AfterAt(Fields(i)[TargetColumn])

RECURSIVE SumCounts(_)
SumCounts(seq) ==
    IF seq = <<>> THEN 0
    ELSE Head(seq).CustomerCount + SumCounts(Tail(seq))

ResultDomains == {result[k].Domain : k \in 1..Len(result)}

SortedDescending(seq) ==
    \A k \in 1..(Len(seq) - 1) : seq[k].CustomerCount >= seq[k + 1].CustomerCount

----------------------------------------------------------------------------
(* C1 *)

\* C1 as stated: whenever GetDomainCounts returns without error, the sum of
\* CustomerCount over the returned slice equals the number of data rows whose
\* target-field value isValidEmail accepts.
C1_SumEqualsRowsWithValidTarget ==
    Completed => SumCounts(result) = Cardinality(RowsWithValidTarget)

\* C1, amended: whenever GetDomainCounts returns without error, the sum of
\* CustomerCount over the returned slice equals the number of data rows that
\* have the header's field count and whose target-field value isValidEmail
\* accepts (a row with another field count is skipped by the CSV reader's
\* ErrFieldCount, whatever its target field holds).
C1_SumEqualsValidRecords ==
    Completed => SumCounts(result) = Cardinality(ValidRecords)

\* a run that returned a sum of at least two, over a file that also holds a
\* row that does not count
C1_Witness ==
    /\ Completed
    /\ Cardinality(ValidRecords) >= 2
    /\ DataLineNos \ ValidRecords # {}
    /\ SumCounts(result) = Cardinality(ValidRecords)

----------------------------------------------------------------------------
(* C2 *)

RowsOfDomain(rows, d) == {i \in rows : DomainOfRow(i) = d}

EntriesMatch(rows) ==
    /\ \A k \in 1..Len(result) :
          /\ result[k].CustomerCount >= 1
          /\ result[k].CustomerCount =
                Cardinality(RowsOfDomain(rows, result[k].Domain))
    /\ \A i \in rows : DomainOfRow(i) \in ResultDomains

\* C2 as stated: the result holds an entry (d, n) exactly for the domains d
\* that n >= 1 data rows with a valid email (in the target field) have after
\* the '@', and n is the number of those rows.
C2_EntriesMatchRowsWithValidTarget ==
    Completed => EntriesMatch(RowsWithValidTarget)

\* C2, amended: the result holds an entry (d, n) exactly for the domains d that
\* n >= 1 data rows with the header's field count and a valid email in the
\* target field have after the '@', and n is the number of those rows; every
\* returned count is at least 1.
C2_EntriesMatchValidRecords ==
    Completed => EntriesMatch(ValidRecords)

\* a run that returned two domains, one of them counted twice
C2_Witness ==
    /\ Completed
    /\ Len(result) = 2
    /\ \E k \in 1..2 : result[k].CustomerCount = 2
    /\ EntriesMatch(ValidRecords)

----------------------------------------------------------------------------
(* C3 *)

\* C3: the slice GetDomainCounts returns, and the slice
\* sortEmailDomainsByCount returns for any map, is sorted by count
\* descending: each entry's count is at least its successor's.
C3_SortedDescending ==
    /\ Completed => SortedDescending(result)
    /\ pcMain = "calledSort" => SortedDescending(callRet)

\* a direct call that returned three entries of strictly falling counts
C3_Witness ==
    /\ pcMain = "calledSort"
    /\ Len(callRet) = 3
    /\ callRet[1].CustomerCount > callRet[2].CustomerCount
    /\ callRet[2].CustomerCount > callRet[3].CustomerCount

----------------------------------------------------------------------------
(* C4 *)

\* C4: no domain appears twice in the result of GetDomainCounts, which has
\* exactly one entry per key of the aggregate map.
C4_OneEntryPerDomain ==
    Completed =>
        /\ Len(result) = Cardinality(DOMAIN emailDomainCounts)
        /\ ResultDomains = DOMAIN emailDomainCounts
        /\ \A j, k \in 1..Len(result) :
              result[j].Domain = result[k].Domain => j = k

\* a run that returned two different domains
C4_Witness ==
    /\ Completed
    /\ Len(result) = 2
    /\ result[1].Domain # result[2].Domain

----------------------------------------------------------------------------
(* C5 *)

\* GetDomainCounts has been called on an existing, readable file that holds
\* the header row with the target field and nothing else
HeaderOnlyCall ==
    /\ importer # "nil"
    /\ disk.stat = "ok" /\ disk.readable
    /\ Len(disk.lines) = 1
    /\ ~disk.lines[1].malformed
    /\ \E k \in 1..Len(HeaderFields) : HeaderFields[k] = emailFieldName

\* C5: on a file of a header row alone GetDomainCounts yields an empty result
\* and no error in every interleaving of main, the reader and the consumer:
\* the call never dies of a panic, and when it returns the result is empty
\* and the error nil.
C5_HeaderOnlyEmptyNoError ==
    HeaderOnlyCall =>
        /\ ~panicked
        /\ pcMain = "returned" => (result = <<>> /\ err = "nil")

----------------------------------------------------------------------------
(* C6 *)

CannotOpen == disk.stat # "ok" \/ ~disk.readable

HeaderUnreadable ==
    ~CannotOpen /\ (disk.lines = <<>> \/ disk.lines[1].malformed)

FieldAbsent ==
    /\ ~CannotOpen /\ ~HeaderUnreadable
    /\ \A k \in 1..Len(HeaderFields) : HeaderFields[k] # emailFieldName

NothingStarted ==
    /\ pcReader = "idle" /\ pcConsumer = "idle"
    /\ wgCounter = 0
    /\ readerPos <= 1
    /\ emailDomainCounts = EmptyMap /\ counted = {}

\* C6: when the file cannot be opened, is empty (or its header cannot be
\* read), or its header lacks the target field, GetDomainCounts starts no
\* goroutine and processes no data row, and it returns a nil result with the
\* error of that case: the open error, the header error and the missing-field
\* error, three different errors.
C6_FatalErrors ==
    (importer # "nil" /\ (CannotOpen \/ HeaderUnreadable \/ FieldAbsent)) =>
        /\ NothingStarted
        /\ pcMain \in {"open", "header", "index", "returned"}
        /\ pcMain = "returned" =>
              /\ result = <<>>
              /\ err = (IF CannotOpen THEN "open"
                        ELSE IF HeaderUnreadable THEN "header" ELSE "field")

\* GetDomainCounts returned the missing-field error on a file that has a data
\* row
C6_Witness ==
    /\ pcMain = "returned"
    /\ err = "field"
    /\ Len(disk.lines) >= 2
    /\ NothingStarted

----------------------------------------------------------------------------
(* C7 *)

NotCsvPath == ~HasSuffix(csvFilePath, CsvSuffix)
NonexistentPath == disk.stat # "ok"
EmptyFieldName == emailFieldName = <<>>

NewReturned == pcMain = "ctorfailed" \/ importer = "constructed"

\* C7: NewCustomerImporter with a path that does not end in .csv, with a path
\* that names nothing, or with an empty field name returns an error and no
\* importer, and the error is the one of that case when it is the only one
\* that applies.
C7_ConstructorRejects ==
    (NewReturned /\ (NotCsvPath \/ NonexistentPath \/ EmptyFieldName)) =>
        /\ importer = "nil"
        /\ newErr # "nil"
        /\ (NotCsvPath /\ ~NonexistentPath /\ ~EmptyFieldName) => newErr = "ext"
        /\ (~NotCsvPath /\ NonexistentPath /\ ~EmptyFieldName) => newErr = "notexist"
        /\ (~NotCsvPath /\ ~NonexistentPath /\ EmptyFieldName) => newErr = "emptyfield"

----------------------------------------------------------------------------
(* C8 *)

\* The reader goroutine is about to look at the target field of a record
\* whose address isValidEmail rejects
AtInvalidEmail ==
    /\ pcReader = "index"
    /\ emailIndex < Len(record)
    /\ ~isValidEmail(record[emailIndex + 1])

\* Data rows read as records whose target field is not a valid email
InvalidEmailRows ==
    {i \in DataLineNos :
        /\ ~disk.lines[i].malformed
        /\ Len(Fields(i)) = Len(HeaderFields)
        /\ i \notin ValidRecords}

PipelineStarted == pcReader # "idle"

\* C8: a data row whose target field is not a valid email is skipped without
\* aborting the run: in a run over a file with such a row GetDomainCounts
\* does not die of a panic and, when it returns, returns a nil error; the
\* skipped row is never aggregated; and every valid row, those after a
\* skipped row included, has been aggregated by the time it returns.
C8_InvalidEmailReturnsSuccess ==
    (PipelineStarted /\ InvalidEmailRows # {}) =>
        /\ ~panicked
        /\ counted \cap InvalidEmailRows = {}
        /\ pcMain = "returned" => (err = "nil" /\ ValidRecords \subseteq counted)

\* The part of C8 that the code keeps: the step that handles the row goes on
\* to the next read, raises no panic and changes neither the error, the
\* result, the aggregate map nor the channel; the row is never aggregated;
\* and a call that returns, returns a nil error with every valid row
\* aggregated.
SkipStep ==
    (AtInvalidEmail /\ pcReader' # pcReader) =>
        /\ pcReader' = "read"
        /\ ~panicked'
        /\ UNCHANGED <<err, result, emailDomainCounts, counted, chanClosed, pcMain>>

InvalidEmailSkipped ==
    /\ [](PipelineStarted =>
            /\ counted \cap InvalidEmailRows = {}
            /\ pcMain = "returned" => (err = "nil" /\ ValidRecords \subseteq counted))
    /\ [][SkipStep]_vars

----------------------------------------------------------------------------
(* C9 *)

\* Data rows the CSV reader reports an error for: a parse error or a field
\* count other than the header's
ErrorRows ==
    {i \in DataLineNos :
        disk.lines[i].malformed \/ Len(Fields(i)) # Len(HeaderFields)}

\* The reader goroutine takes the step that reads data row i
ReadsRow(i) == pcReader = "read" /\ readerPos + 1 = i /\ readerPos' = i

C9_ErrorRowStep ==
    \A i \in ErrorRows :
        ReadsRow(i) =>
            /\ pcReader' = "read"
            /\ ~panicked'
            /\ UNCHANGED <<err, result, emailDomainCounts, counted, chanClosed,
                           email, pcMain>>

\* C9: a data row that fails to parse or whose field count differs from the
\* header's is skipped without aborting the run (the step that reads it goes
\* on to the next read, raises no panic and changes neither the error, the
\* result nor the aggregate map), and the target field is never indexed on
\* such a row: whenever the reader goroutine is at record[emailIndex], the
\* record is a row without error and emailIndex is smaller than its field
\* count.
C9_ErrorRowSkipped ==
    /\ [](pcReader = "index" =>
            /\ emailLine \notin ErrorRows
            /\ record = Fields(emailLine)
            /\ emailIndex >= 0
            /\ emailIndex < Len(record))
    /\ [](PipelineStarted => counted \cap ErrorRows = {})
    /\ [][C9_ErrorRowStep]_vars

\* the reader is at record[emailIndex] after a row with a field-count error
\* and a malformed row
C9_Witness ==
    /\ pcReader = "index"
    /\ emailIndex < Len(record)
    /\ \E i, j \in ErrorRows :
          /\ i < emailLine /\ j < emailLine
          /\ disk.lines[i].malformed
          /\ ~disk.lines[j].malformed

----------------------------------------------------------------------------
(* C10 *)

\* e is one or more characters of the local class, one '@', one or more
\* characters of the domain class, a '.', and two or more letters
MatchesContract(e) ==
    \E at, dot \in 1..Len(e) :
        /\ e[at] = "@"
        /\ e[dot] = "."
        /\ at >= 2
        /\ dot >= at + 2
        /\ Len(e) >= dot + 2
        /\ \A k \in 1..(at - 1) : e[k] \in LocalChars
        /\ \A k \in (at + 1)..(dot - 1) : e[k] \in DomainChars
        /\ \A k \in (dot + 1)..Len(e) : e[k] \in Letters

CountAt(e) == Cardinality({k \in 1..Len(e) : e[k] = "@"})

\* C10: isValidEmail accepts a string exactly when it is one or more
\* characters from letters, digits, '.', '_', '%', '+', '-', then a single
\* '@', then one or more characters from letters, digits, '.', '-', then a
\* '.', then two or more letters; a string with no '@' or more than one is
\* rejected.
C10_ValidIffContract ==
    pcMain = "calledValid" =>
        /\ callRet = MatchesContract(callArg)
        /\ CountAt(callArg) # 1 => ~callRet

\* an accepted address whose domain part holds a dot before the last one
C10_Witness ==
    /\ pcMain = "calledValid"
    /\ callRet
    /\ \E j, k \in 1..Len(callArg) : j < k /\ callArg[j] = "." /\ callArg[k] = "."

----------------------------------------------------------------------------
(* C11 *)

\* extractEmailDomain(callArg) has returned callRet
ExtractCalled == pcMain = "calledExtract"

\* C11: extractEmailDomain returns the substring after the '@' and no error
\* when its argument holds exactly one '@', and an error with an empty domain
\* when it holds none or more than one.
C11_ExtractDomain ==
    ExtractCalled =>
        IF CountAt(callArg) = 1
        THEN /\ ~callRet.err
             /\ callRet.domain = AfterAt(callArg)
        ELSE /\ callRet.err
             /\ callRet.domain = <<>>

C11_Witness ==
    /\ ExtractCalled
    /\ CountAt(callArg) = 1
    /\ ~callRet.err
    /\ Len(callRet.domain) > 1
    /\ Len(callRet.domain) < Len(callArg) - 1

----------------------------------------------------------------------------
(* C12 *)

\* Valid records the reader goroutine has read and the consumer goroutine has
\* not aggregated yet
Pending == {i \in ValidRecords : i <= readerPos /\ i \notin counted}

\* C12 as stated: rows are processed strictly one at a time, the read of data
\* row i+1 never happens before the aggregate-map increment for data row i
\* (readerPos > i: the line after line i has been read).
C12_NextReadAfterIncrement ==
    PipelineStarted =>
        \A i \in ValidRecords : readerPos > i => i \in counted

\* C12, amended: rows are handed over strictly one at a time.  The send of a
\* valid row never completes before the aggregate-map increment for every
\* earlier valid row, and the only valid rows read and not yet aggregated are
\* the one the consumer holds and the one the reader holds; the read of data
\* row i+1 may precede the increment for data row i.
C12_HandoverAfterIncrement ==
    PipelineStarted =>
        /\ \A i \in ValidRecords : i < addressLine => i \in counted
        /\ Pending \subseteq {addressLine, emailLine}
        /\ counted \subseteq ValidRecords

C12_Witness ==
    /\ pcConsumer = "extract"
    /\ pcReader = "send"
    /\ addressLine \in ValidRecords
    /\ addressLine \notin counted
    /\ emailLine > addressLine
    /\ counted # {}

----------------------------------------------------------------------------
(* C13 *)

\* The step is the consumer goroutine's emailDomainCounts[domain]++
ConsumerWrites ==
    /\ pcConsumer = "extract"
    /\ pcConsumer' = "recv"
    /\ pcMain' = pcMain
    /\ pcReader' = pcReader

\* Main is at, or past, its read of the map in sortEmailDomainsByCount
MainReadsMap == pcMain \in {"sort", "returned"}

C13_Step ==
    /\ emailDomainCounts' # emailDomainCounts => ConsumerWrites
    /\ MainReadsMap => emailDomainCounts' = emailDomainCounts

\* C13: the aggregate map is never accessed concurrently: every step that
\* writes it is a step of the consumer goroutine, and from the moment main
\* has left wg.Wait() for its read in sortEmailDomainsByCount no step writes
\* it any more.
C13_MapNotSharedConcurrently == [][C13_Step]_vars

C13_Witness ==
    /\ Completed
    /\ Cardinality(counted) >= 2
    /\ Cardinality(DOMAIN emailDomainCounts) >= 2
    /\ pcConsumer = "exit"

----------------------------------------------------------------------------
(* C14 *)

\* GetDomainCounts has been called on a file whose header can be read and
\* holds the target field
CalledOnGoodHeader ==
    /\ importer # "nil"
    /\ disk.stat = "ok"
    /\ disk.readable
    /\ Len(disk.lines) >= 1
    /\ ~disk.lines[1].malformed
    /\ indexOf(HeaderFields, emailFieldName) # -1

\* C14: on every finite file with a readable header that holds the target
\* field GetDomainCounts eventually returns under fair scheduling.  No step
\* of the model can be repeated forever (each consumes a line or moves a
\* goroutine forward), so the run returns exactly when it never comes to rest
\* before main has returned: in every state main has returned or some step
\* can be taken.
C14_ReturnsOrCanStep ==
    CalledOnGoodHeader => (pcMain = "returned" \/ ENABLED Next)

\* The runs that do not die of a panic never come to rest before the return
NoRestWithoutPanic ==
    (CalledOnGoodHeader /\ ~panicked) => (pcMain = "returned" \/ ENABLED Next)

----------------------------------------------------------------------------
(* C15 *)

\* C15: the extraction-error branch is unreachable after a successful
\* validation.  extractEmailDomain succeeds on every string isValidEmail
\* accepts; the address the consumer goroutine is about to extract from is
\* one isValidEmail accepted and extractEmailDomain succeeds on it; and every
\* address handed over on the channel has been aggregated once the consumer
\* is past it.
C15_ValidImpliesExtractable ==
    /\ (ExtractCalled /\ isValidEmail(callArg)) => ~callRet.err
    /\ pcConsumer = "extract" =>
            /\ isValidEmail(address)
            /\ ~extractEmailDomain(address).err
    /\ (addressLine # 0 /\ pcConsumer # "extract") => addressLine \in counted

\* the consumer is past a second address, received after a row with two '@'
\* was skipped by the reader
C15_Witness ==
    /\ pcConsumer = "recv"
    /\ Cardinality(counted) >= 2
    /\ addressLine \in counted
    /\ \E i \in InvalidEmailRows :
            /\ i < addressLine
            /\ CountAt(Fields(i)[TargetColumn]) = 2

----------------------------------------------------------------------------
(* C16 *)

\* Valid records i and j have domains that differ, and only in letter case
DifferInCaseOnly(i, j) ==
    /\ DomainOfRow(i) # DomainOfRow(j)
    /\ ToLower(DomainOfRow(i)) = ToLower(DomainOfRow(j))

\* The result has an entry for the domain of row i, as written, that counts
\* the rows with exactly that domain
OwnEntry(i) ==
    \E k \in 1..Len(result) :
        /\ result[k].Domain = DomainOfRow(i)
        /\ result[k].CustomerCount =
              Cardinality(RowsOfDomain(ValidRecords, DomainOfRow(i)))

\* C16: domains are aggregated case-sensitively as written: two valid emails
\* whose domains differ only in letter case are counted under two separate
\* result entries, each counting the rows with exactly its spelling.
C16_CaseSensitiveDomains ==
    Completed =>
        \A i, j \in ValidRecords :
            DifferInCaseOnly(i, j) => (OwnEntry(i) /\ OwnEntry(j))

C16_Witness ==
    /\ Completed
    /\ Len(result) = 2
    /\ result[1].CustomerCount = 2
    /\ result[2].CustomerCount = 1
    /\ \E i, j \in ValidRecords : DifferInCaseOnly(i, j)

----------------------------------------------------------------------------
(* C17 *)

\* Main has run wg.Add(1) of line 79
MainAdded ==
    \/ pcMain \in {"goreader", "goconsumer", "wait", "blocked", "woken", "sort"}
    \/ Completed

\* wg.Wait() has let main go
WaitReleased == pcMain \in {"woken", "sort"} \/ Completed

\* C17: wg.Wait() is released only after the reader goroutine and the
\* consumer goroutine have both run to completion, and no wg.Add(1) is still
\* to be executed by either of them once the counter has dropped to zero.
C17_WaitReleasedAfterGoroutines ==
    /\ WaitReleased => (pcReader = "exit" /\ pcConsumer = "exit")
    /\ (MainAdded /\ wgCounter = 0) =>
            (pcReader \notin {"idle", "add"} /\ pcConsumer \notin {"idle", "add"})

----------------------------------------------------------------------------
(* C18 *)

\* Main has returned from GetDomainCounts and both goroutines have ended
AllFinished == Completed /\ pcReader = "exit" /\ pcConsumer = "exit"

\* C18: the WaitGroup counter never goes below zero, and it is zero once
\* main, the reader goroutine and the consumer goroutine have all finished.
C18_CounterNeverNegative ==
    /\ wgCounter >= 0
    /\ AllFinished => wgCounter = 0

\* all three have finished after the consumer added and aggregated
C18_Witness ==
    /\ AllFinished
    /\ wgCounter = 0
    /\ counted # {}

----------------------------------------------------------------------------
(* C19 *)

\* The consumer's range loop has seen the channel closed
ConsumerSawClose == pcConsumer \in {"done", "release", "exit"}

\* The step closes the channel, and the reader goroutine takes it
C19_Step ==
    chanClosed' # chanClosed =>
        /\ ~chanClosed
        /\ pcReader = "close"
        /\ pcMain' = pcMain
        /\ pcConsumer' = pcConsumer

C19_Inv ==
    /\ pcReader \in {"send", "close"} => ~chanClosed
    /\ chanClosed =>
            /\ pcReader \in {"done2", "release2", "exit"}
            /\ readerPos = Len(disk.lines)
            /\ ValidRecords \subseteq counted \cup {addressLine}
    /\ ConsumerSawClose => (chanClosed /\ ValidRecords \subseteq counted)
    /\ Completed => chanClosed

\* C19: the emailAddresses channel is closed exactly once, only by the
\* reader goroutine and only after its last send (every line has been read
\* and every valid record handed over); no send happens on the closed
\* channel; and the consumer has received every address that was sent by the
\* time it observes the close.
C19_ClosedOnceAfterLastSend == []C19_Inv /\ [][C19_Step]_vars

\* the consumer observes the close after it received two addresses
C19_Witness ==
    /\ ConsumerSawClose
    /\ chanClosed
    /\ Cardinality(counted) >= 2


====
